---- MODULE Spec2Model ----
(***************************************************************************)
(* The tablet load balancer of service/tablet_allocator.cc:                *)
(* load_balancer::make_plan() and load_balancer::make_plan(dc), with the   *)
(* token-metadata snapshot they read (topology, tablet maps, transitions). *)
(*                                                                         *)
(* Loads are doubles in the code (tablet_count / shard_count).  They are   *)
(* kept here as exact fractions [num, den] and compared by cross           *)
(* multiplication: for counts this small two different fractions are       *)
(* further apart than a double's rounding, and equal fractions round to    *)
(* the same double, so <, <= and == agree with the code's.                 *)
(***************************************************************************)
EXTENDS Integers, Sequences, FiniteSets, TLC

\* ------------------------------------------------------------------ bounds
\* Largest number of tablets (over all tables) in a generated snapshot.
MaxTablets == 2
\* Largest replication factor of a generated tablet.
MaxRF == 2
\* Number of tables (tablet maps) of a generated snapshot.
NumTables == 2
\* Largest number of plan/apply rounds the iterated specification follows.
MaxRounds == 3
\* Largest number of tables of the keyspace a drop-keyspace notification names.
MaxDropTables == 3
\* Largest number of mutations in the caller's list before the notification.
MaxPriorMuts == 2
\* Cap of the count of selection-loop iterations of one make_plan(dc) call.
MaxIterations == 20

Tables == 1..NumTables

\* ---------------------------------------------------------------- topology
\* A node of locator::topology as make_plan reads it: dc_rack(), get_state(),
\* get_shard_count().  replica_shards is not read by the planner: it is the
\* number of shard ids the snapshot's replicas on that node may name (more
\* than shard_count when the tablet metadata is older than the node's
\* current shard count).
Node(dc, rack, state, shard_count, replica_shards) ==
    [dc |-> dc, rack |-> rack, state |-> state,
     shard_count |-> shard_count, replica_shards |-> replica_shards]

\* The topologies a snapshot is drawn from; host ids are the indices.
Topologies ==
    { \* one DC, two single-shard nodes in one rack, a two-shard node in another
      << Node("dc1", "r1", "normal", 1, 1), Node("dc1", "r1", "normal", 1, 1),
         Node("dc1", "r2", "normal", 2, 2) >>,
      \* one DC, the second single-shard node shares the two-shard node's rack
      << Node("dc1", "r1", "normal", 1, 1), Node("dc1", "r2", "normal", 1, 1),
         Node("dc1", "r2", "normal", 2, 2) >>,
      \* two DCs, a three-shard node
      << Node("dc1", "r1", "normal", 1, 1), Node("dc1", "r1", "normal", 3, 3),
         Node("dc2", "r1", "normal", 1, 1) >>,
      \* stale shard ids on host 1, a node without shards in the second DC
      << Node("dc1", "r1", "normal", 1, 2), Node("dc1", "r1", "normal", 1, 1),
         Node("dc2", "r1", "normal", 0, 1) >>,
      \* nodes that are not in state normal, a DC without any normal node
      << Node("dc1", "r1", "normal", 1, 1), Node("dc1", "r1", "leaving", 1, 1),
         Node("dc2", "r1", "leaving", 1, 1) >> }

VARIABLES
    topology,       \* _tm->get_topology(): host -> Node
    tmaps,          \* _tm->tablets().all_tables(): table -> sequence (by tablet id) of replica lists
    transitions,    \* table -> whether tmap.transitions() is non-empty
    pc,             \* position of the planning call
    dcs_todo,       \* datacenters make_plan() has not planned yet
    plan,           \* make_plan(): the aggregated plan
    cur_dc,         \* the dc argument of the running make_plan(dc)
    nodes,          \* make_plan(dc): host -> node_load
    target,         \* make_plan(dc): the target host (0 before one is chosen)
    nodes_by_load,  \* make_plan(dc): heap of hosts
    max_off_candidate_load,
    target_load,    \* locator::load_sketch of the target: shard -> count
    dc_plan,        \* make_plan(dc): plan
    rounds,         \* sizes of the plans applied so far (iterated planning)
    iterations,     \* make_plan(dc): iterations of the selection loop begun so far
    call,           \* on_before_drop_keyspace: the keyspace found in _db and the arguments
    muts,           \* on_before_drop_keyspace: the caller's std::vector<mutation>
    hook_pc         \* position of the on_before_drop_keyspace call

vars == << topology, tmaps, transitions, pc, dcs_todo, plan, cur_dc, nodes, target,
           nodes_by_load, max_off_candidate_load, target_load, dc_plan, rounds,
           iterations, call, muts, hook_pc >>

\* The variables of the schema listener; the planner does not touch them.
listener == << call, muts, hook_pc >>

\* The planner's variables.
planner == << topology, tmaps, transitions, pc, dcs_todo, plan, cur_dc, nodes, target,
              nodes_by_load, max_off_candidate_load, target_load, dc_plan, rounds,
              iterations >>

Hosts == DOMAIN topology

\* topo.get_datacenters()
Datacenters == { topology[h].dc : h \in Hosts }

\* ------------------------------------------------------------------- loads
\* load_type: the fraction num/den, den > 0.
Load(num, den) == [num |-> num, den |-> den]

LoadLess(a, b) == a.num * b.den < b.num * a.den

LoadEq(a, b) == a.num * b.den = b.num * a.den

\* std::max on load_type
LoadMax(a, b) == IF LoadLess(a, b) THEN b ELSE a

\* ------------------------------------------------------------------- heaps
\* std::make_heap / push_heap / pop_heap as libstdc++ implements them, on a
\* sequence whose element e has key key[e]; the comparator is key[a] < key[b].
\* Indices are the 0-based ones of the C++ code.
At(s, i) == s[i + 1]

Put(s, i, v) == [s EXCEPT ![i + 1] = v]

RECURSIVE PushHeapFrom(_, _, _, _, _)
\* std::__push_heap(first, holeIndex, topIndex, value, comp)
PushHeapFrom(s, hole, top, value, key) ==
    IF hole > top /\ LoadLess(key[At(s, (hole - 1) \div 2)], key[value])
    THEN PushHeapFrom(Put(s, hole, At(s, (hole - 1) \div 2)), (hole - 1) \div 2, top, value, key)
    ELSE Put(s, hole, value)

RECURSIVE SiftHole(_, _, _, _)
\* the while loop of std::__adjust_heap: moves the hole down along the larger child
SiftHole(s, hole, len, key) ==
    IF hole < (len - 1) \div 2
    THEN LET right == 2 * (hole + 1)
             child == IF LoadLess(key[At(s, right)], key[At(s, right - 1)])
                      THEN right - 1 ELSE right
         IN  SiftHole(Put(s, hole, At(s, child)), child, len, key)
    ELSE << s, hole >>

\* std::__adjust_heap(first, holeIndex, len, value, comp)
AdjustHeap(s, hole0, len, value, key) ==
    LET down == SiftHole(s, hole0, len, key)
        s1   == down[1]
        h1   == down[2]
        last == IF len % 2 = 0 /\ h1 = (len - 2) \div 2
                THEN << Put(s1, h1, At(s1, 2 * (h1 + 1) - 1)), 2 * (h1 + 1) - 1 >>
                ELSE << s1, h1 >>
    IN  PushHeapFrom(last[1], last[2], hole0, value, key)

\* std::pop_heap(first, last, comp): the top goes to the back
PopHeap(s, key) ==
    IF Len(s) > 1
    THEN AdjustHeap([s EXCEPT ![Len(s)] = s[1]], 0, Len(s) - 1, s[Len(s)], key)
    ELSE s

\* std::push_heap(first, last, comp): the back is sifted up
PushHeap(s, key) ==
    IF Len(s) > 1 THEN PushHeapFrom(s, Len(s) - 1, 0, s[Len(s)], key) ELSE s

RECURSIVE MakeHeapFrom(_, _, _)
MakeHeapFrom(s, parent, key) ==
    LET s1 == AdjustHeap(s, parent, Len(s), At(s, parent), key)
    IN  IF parent = 0 THEN s1 ELSE MakeHeapFrom(s1, parent - 1, key)

\* std::make_heap(first, last, comp)
MakeHeap(s, key) ==
    IF Len(s) < 2 THEN s ELSE MakeHeapFrom(s, (Len(s) - 2) \div 2, key)

Front(s) == SubSeq(s, 1, Len(s) - 1)

Last(s) == s[Len(s)]

\* ---------------------------------------------------------------- snapshot
\* tablet_replica
Replica(host, shard) == [host |-> host, shard |-> shard]

\* global_tablet_id
TabletId(table, tid) == << table, tid >>

\* All tablets of the snapshot.
AllTablets == UNION { { TabletId(t, i) : i \in 1..Len(tmaps[t]) } : t \in Tables }

\* tmap.get_tablet_info(tablet).replicas
ReplicasOf(g) == tmaps[g[1]][g[2]]

ReplicaHosts(g) == { ReplicasOf(g)[i].host : i \in 1..Len(ReplicasOf(g)) }

RECURSIVE Ascending(_)
\* The elements of a set of integers as an ascending sequence.
Ascending(S) ==
    IF S = {} THEN << >>
    ELSE LET m == CHOOSE x \in S : \A y \in S : x <= y
         IN  << m >> \o Ascending(S \ {m})

\* The shard ids the replicas of a snapshot on topo name.
ShardIds(topo) == UNION { 0..(topo[h].replica_shards - 1) : h \in DOMAIN topo }

\* The replica lists a generated tablet may have on topology topo: 1..MaxRF
\* replicas on distinct hosts.  Hosts are listed in ascending order: with
\* distinct hosts the planner's result does not depend on the order of a
\* tablet's replicas (each goes to another node's counters, the collision
\* check is a disjunction and rack_load is a map).
ReplicaLists(topo) ==
    UNION { { [i \in 1..Cardinality(S) |-> Replica(Ascending(S)[i], f[Ascending(S)[i]])] :
                f \in { g \in [S -> ShardIds(topo)] : \A h \in S : g[h] < topo[h].replica_shards } } :
            S \in { T \in SUBSET (DOMAIN topo) : Cardinality(T) \in 1..MaxRF } }

\* The assignments of n tablets to tables: tablets are numbered table by table.
TableSplits(n) ==
    { f \in [1..n -> Tables] : \A i \in 1..n, j \in 1..n : i <= j => f[i] <= f[j] }

\* The tablet map of table t when the tablets infos are split by tbl.
TabletMapOf(infos, tbl, t) ==
    LET idx == { i \in DOMAIN infos : tbl[i] = t }
        lo  == IF idx = {} THEN 0 ELSE CHOOSE i \in idx : \A j \in idx : i <= j
    IN  [k \in 1..Cardinality(idx) |-> infos[lo + k - 1]]

\* A snapshot generated within the bounds.
GeneratedSnapshot ==
    /\ topology \in Topologies
    /\ \E n \in 0..MaxTablets :
         \E infos \in [1..n -> ReplicaLists(topology)] :
           \E tbl \in TableSplits(n) :
             tmaps = [t \in Tables |-> TabletMapOf(infos, tbl, t)]
    /\ transitions \in [Tables -> BOOLEAN]

\* Scenario S6 of the specification (S1 is its first half): two nodes of two
\* shards, 8 tablets with RF=1 on the first node, 4 per shard.
ScenarioS6 ==
    /\ topology = << Node("dc1", "r1", "normal", 2, 2), Node("dc1", "r1", "normal", 2, 2) >>
    /\ tmaps = [t \in Tables |->
                  IF t = 1 THEN [i \in 1..8 |-> << Replica(1, i % 2) >>] ELSE << >>]
    /\ transitions = [t \in Tables |-> FALSE]

\* A single-shard node holding 3 tablets with RF=1 next to an empty node of
\* two shards: one plan takes two tablets from the same shard.
ScenarioHotShard ==
    /\ topology = << Node("dc1", "r1", "normal", 1, 1), Node("dc1", "r1", "normal", 2, 2) >>
    /\ tmaps = [t \in Tables |->
                  IF t = 1 THEN [i \in 1..3 |-> << Replica(1, 0) >>] ELSE << >>]
    /\ transitions = [t \in Tables |-> FALSE]

\* Two nodes of two shards and a single-shard node: 2 tablets with RF=1 on
\* the first node, one per shard, the other two nodes empty.
ScenarioIdleNode ==
    /\ topology = << Node("dc1", "r1", "normal", 2, 2), Node("dc1", "r1", "normal", 2, 2),
                     Node("dc1", "r1", "normal", 1, 1) >>
    /\ tmaps = [t \in Tables |->
                  IF t = 1 THEN [i \in 1..2 |-> << Replica(1, i % 2) >>] ELSE << >>]
    /\ transitions = [t \in Tables |-> FALSE]

\* Two loaded single-shard nodes next to an empty node of two shards: 5
\* tablets with RF=1, 3 on the first node and 2 on the second.
ScenarioTwoSources ==
    /\ topology = << Node("dc1", "r1", "normal", 1, 1), Node("dc1", "r1", "normal", 1, 1),
                     Node("dc1", "r1", "normal", 2, 2) >>
    /\ tmaps = [t \in Tables |->
                  IF t = 1 THEN [i \in 1..5 |-> << Replica(IF i <= 3 THEN 1 ELSE 2, 0) >>]
                  ELSE << >>]
    /\ transitions = [t \in Tables |-> FALSE]

\* The planner's variables before make_plan() runs.
InitPlanner ==
    /\ pc = "make_plan"
    /\ dcs_todo = Datacenters
    /\ plan = << >>
    /\ cur_dc = ""
    /\ nodes = << >>
    /\ target = 0
    /\ nodes_by_load = << >>
    /\ max_off_candidate_load = Load(0, 1)
    /\ target_load = << >>
    /\ dc_plan = << >>
    /\ rounds = << >>
    /\ iterations = 0

\* No schema notification is in progress.
ListenerIdle ==
    /\ call = [uses_tablets |-> FALSE, tables |-> {}, ts |-> 0, prior |-> << >>]
    /\ muts = << >>
    /\ hook_pc = "idle"

Init ==
    /\ \/ GeneratedSnapshot \/ ScenarioS6 \/ ScenarioHotShard
       \/ ScenarioIdleNode \/ ScenarioTwoSources
    /\ InitPlanner
    /\ ListenerIdle

\* ----------------------------------------------- make_plan(dc): phases A-F
\* The filter without its state test: nodes that are not normal are balanced too.
InBalancedSet_AnyState(h, dc) == topology[h].dc = dc

\* The filter without its DC test: the normal nodes of every DC are balanced together.
InBalancedSet_AnyDC(h, dc) == topology[h].state = "normal"

\* The filter of the for_each_node callback: the nodes that are balanced.
InBalancedSet(h, dc) == topology[h].state = "normal" /\ topology[h].dc = dc

NodeSet(dc) == { h \in Hosts : InBalancedSet(h, dc) }

\* The shard count test left out.
ZeroShards_Never(dc) == FALSE

\* "Shard count of {} not found in topology"
ZeroShards(dc) == \E h \in NodeSet(dc) : topology[h].shard_count = 0

RECURSIVE Flatten(_)
Flatten(ss) == IF ss = << >> THEN << >> ELSE ss[1] \o Flatten(Tail(ss))

\* The replicas of table t in the order for_each_tablet and the loop over
\* ti.replicas visit them.
TableReplicas(t) ==
    Flatten([i \in 1..Len(tmaps[t]) |->
               [k \in 1..Len(tmaps[t][i]) |->
                  [tablet |-> TabletId(t, i), host |-> tmaps[t][i][k].host,
                   shard |-> tmaps[t][i][k].shard]]])

\* The replicas of all tables in traversal order.  Table ids stand for the
\* positions of the tables in all_tables().
AllReplicas == Flatten([t \in Tables |-> TableReplicas(t)])

\* nodes[replica.host].tablet_count after the first traversal
CountOn(h) ==
    Cardinality(UNION { UNION { { << t, i, k >> : k \in { x \in DOMAIN tmaps[t][i] :
                                                            tmaps[t][i][x].host = h } } :
                                i \in DOMAIN tmaps[t] } : t \in Tables })

\* "Tablet {} replica {} targets non-existent shard"
BadShard(dc) ==
    \E reps \in {AllReplicas} :
        \E k \in DOMAIN reps :
            /\ reps[k].host \in NodeSet(dc)
            /\ reps[k].shard >= topology[reps[k].host].shard_count

\* node_load::get_avg_load
GetAvgLoad(tablets, shard_count) == Load(tablets, shard_count)

\* The orders in which the unordered_map nodes may be iterated.
Orders(S) == { o \in [1..Cardinality(S) -> S] : \A i, j \in DOMAIN o : i # j => o[i] # o[j] }

\* The loop body with the test for a smaller load left out: the node visited
\* last becomes min_load_node.
ImbalanceStep_LastNode(acc, h, avg) ==
    LET a1 == [acc EXCEPT !.min_load = avg, !.min_load_node = h]
    IN  IF LoadLess(a1.max_load, avg) THEN [a1 EXCEPT !.max_load = avg] ELSE a1

\* One iteration of the loop over nodes for host h of average load avg:
\* min_load and min_load_node, then max_load.
ImbalanceStep(acc, h, avg) ==
    LET a1 == IF acc.min_load_node = 0 \/ LoadLess(avg, acc.min_load)
              THEN [acc EXCEPT !.min_load = avg, !.min_load_node = h]
              ELSE acc
    IN  IF LoadLess(a1.max_load, avg) THEN [a1 EXCEPT !.max_load = avg] ELSE a1

RECURSIVE Imbalance(_, _, _)
\* The loop computing max_load, min_load and min_load_node over nodes, from
\* position i of the iteration order on.  min_load_node = 0 is std::nullopt.
\* The load and the accumulator are bound as values before they are read.
Imbalance(order, i, acc) ==
    IF i > Len(order) THEN acc
    ELSE CHOOSE r \in { Imbalance(order, i + 1, a) :
                           a \in { ImbalanceStep(acc, order[i], avg) :
                                     avg \in {GetAvgLoad(CountOn(order[i]),
                                                         topology[order[i]].shard_count)} } } : TRUE

ImbalanceOf(order) ==
    Imbalance(order, 1, [max_load |-> Load(0, 1), min_load |-> Load(0, 1), min_load_node |-> 0])

\* max_load == min_load
IsBalanced(order) ==
    LET im == ImbalanceOf(order)
    IN  LoadEq(im.max_load, im.min_load)

\* make_plan(dc) takes the "load is balanced" return: whether it does is the
\* same for every iteration order of nodes.
Balanced(dc) == { o \in Orders(NodeSet(dc)) : IsBalanced(o) } # {}

\* The transitions test left out.
HasTransitions_Never(t) == FALSE

\* !tmap.transitions().empty()
HasTransitions(t) == transitions[t]

\* The second traversal meets a table with pending transitions.
PendingTransitions == { t \in Tables : HasTransitions(t) } # {}

\* A batch one migration larger than the target's shard count.
BatchSize_PlusOne(t) == topology[t].shard_count + 1

\* batch_size
BatchSize(t) == topology[t].shard_count

\* node_load after the first traversal and update()
NodeLoad(h) ==
    [shard_count    |-> topology[h].shard_count,
     tablet_count   |-> CountOn(h),
     avg_load       |-> GetAvgLoad(CountOn(h), topology[h].shard_count),
     shards_by_load |-> << >>,
     shards         |-> [s \in 1..topology[h].shard_count |->
                           [tablet_count |-> 0, candidates |-> {}]]]

\* The shard pushed for every replica, not only for the first on the shard.
AddReplica_AlwaysPush(n, r) ==
    LET sl == n.shards[r.shard + 1]
    IN  [n EXCEPT
           !.shards_by_load = Append(@, r.shard),
           !.shards[r.shard + 1] = [tablet_count |-> sl.tablet_count + 1,
                                    candidates   |-> sl.candidates \cup {r.tablet}]]

\* The replica counted on shard 0 of its node whatever shard it names.
AddReplica_FirstShard(n, r) ==
    LET sl == n.shards[1]
    IN  [n EXCEPT
           !.shards_by_load = IF sl.tablet_count = 0 THEN Append(@, 0) ELSE @,
           !.shards[1] = [tablet_count |-> sl.tablet_count + 1,
                          candidates   |-> sl.candidates \cup {r.tablet}]]

\* The body of the second traversal for replica r of a node in nodes, whose
\* node_load is n: shards_by_load, tablet_count and candidates of r.shard.
AddReplica(n, r) ==
    LET sl == n.shards[r.shard + 1]
    IN  [n EXCEPT
           !.shards_by_load = IF sl.tablet_count = 0 THEN Append(@, r.shard) ELSE @,
           !.shards[r.shard + 1] = [tablet_count |-> sl.tablet_count + 1,
                                    candidates   |-> sl.candidates \cup {r.tablet}]]

RECURSIVE ShardLoads(_, _, _)
\* The second traversal: per-shard load and candidate tablets, over the
\* replicas reps from position k on.  Shard s of a node is shards[s + 1].
\* The updated map is bound as a value before the next replica is visited.
ShardLoads(reps, k, nl) ==
    IF k > Len(reps) THEN nl
    ELSE LET r == reps[k]
         IN  IF r.host \notin DOMAIN nl THEN ShardLoads(reps, k + 1, nl)
             ELSE CHOOSE res \in { ShardLoads(reps, k + 1, a) :
                      a \in {[nl EXCEPT ![r.host] = AddReplica(nl[r.host], r)]} } : TRUE

\* shards_by_load_cmp()
ShardKey(n) == [s \in 0..(n.shard_count - 1) |-> Load(n.shards[s + 1].tablet_count, 1)]

\* nodes_cmp
NodeKey(nl) == [h \in DOMAIN nl |-> nl[h].avg_load]

\* nodes after the second traversal and the make_heap of every shards_by_load
PreparedNodes(dc) ==
    LET nl == ShardLoads(AllReplicas, 1, [h \in NodeSet(dc) |-> NodeLoad(h)])
    IN  [h \in NodeSet(dc) |->
           [nl[h] EXCEPT !.shards_by_load = MakeHeap(@, ShardKey(nl[h]))]]

\* ------------------------------------------------------------- load sketch
\* locator::load_sketch::populate(target): the target's per-shard replica counts
Populate(t) ==
    LET reps == AllReplicas
    IN  [s \in 0..(topology[t].shard_count - 1) |->
           Cardinality({ k \in DOMAIN reps : reps[k].host = t /\ reps[k].shard = s })]

\* locator::load_sketch::next_shard(target): the least loaded shard, the lowest id on ties
NextShard(sketch) ==
    CHOOSE s \in DOMAIN sketch :
        \A u \in DOMAIN sketch : sketch[s] < sketch[u] \/ (sketch[s] = sketch[u] /\ s <= u)

\* -------------------------------------------------- make_plan(): the DC loop
\* make_plan(dc) throws at a node of the DC that has no shards.
ThrowNoShards(dc) ==
    /\ pc = "make_plan"
    /\ dc \in dcs_todo
    /\ ZeroShards(dc)
    /\ pc' = "failed"
    /\ plan' = << >>
    /\ cur_dc' = dc
    /\ UNCHANGED << listener, iterations, topology, tmaps, transitions, dcs_todo, nodes, target,
                    nodes_by_load, max_off_candidate_load, target_load, dc_plan, rounds >>

\* make_plan(dc) ends in on_internal_error at a replica naming a non-existent shard.
ThrowBadShard(dc) ==
    /\ pc = "make_plan"
    /\ dc \in dcs_todo
    /\ ~ZeroShards(dc)
    /\ BadShard(dc)
    /\ pc' = "failed"
    /\ plan' = << >>
    /\ cur_dc' = dc
    /\ UNCHANGED << listener, iterations, topology, tmaps, transitions, dcs_todo, nodes, target,
                    nodes_by_load, max_off_candidate_load, target_load, dc_plan, rounds >>

\* make_plan(dc) returns an empty plan at "load is balanced"; make_plan() appends it.
ReturnBalanced(dc) ==
    /\ pc = "make_plan"
    /\ dc \in dcs_todo
    /\ ~ZeroShards(dc)
    /\ ~BadShard(dc)
    /\ Balanced(dc)
    /\ dcs_todo' = dcs_todo \ {dc}
    /\ cur_dc' = dc
    /\ UNCHANGED << listener, iterations, topology, tmaps, transitions, pc, plan, nodes, target,
                    nodes_by_load, max_off_candidate_load, target_load, dc_plan, rounds >>

\* make_plan(dc) returns an empty plan at "Pending transitions active."
ReturnTransitions(dc) ==
    /\ pc = "make_plan"
    /\ dc \in dcs_todo
    /\ ~ZeroShards(dc)
    /\ ~BadShard(dc)
    /\ ~Balanced(dc)
    /\ PendingTransitions
    /\ dcs_todo' = dcs_todo \ {dc}
    /\ cur_dc' = dc
    /\ UNCHANGED << listener, iterations, topology, tmaps, transitions, pc, plan, nodes, target,
                    nodes_by_load, max_off_candidate_load, target_load, dc_plan, rounds >>

\* make_plan(dc) reaches the selection loop: target, candidates and heaps are set up.
EnterLoop(dc) ==
    /\ pc = "make_plan"
    /\ dc \in dcs_todo
    /\ ~ZeroShards(dc)
    /\ ~BadShard(dc)
    /\ ~PendingTransitions
    /\ \E prepared \in {PreparedNodes(dc)} :
           \E order \in Orders(NodeSet(dc)) :
             /\ ~IsBalanced(order)
             /\ target' = ImbalanceOf(order).min_load_node
             /\ nodes' = prepared
             /\ nodes_by_load' = MakeHeap(order, NodeKey(prepared))
    /\ target_load' = Populate(target')
    /\ max_off_candidate_load' = Load(0, 1)
    /\ dc_plan' = << >>
    /\ cur_dc' = dc
    /\ pc' = "loop"
    /\ iterations' = 0
    /\ UNCHANGED << listener, topology, tmaps, transitions, dcs_todo, plan, rounds >>

\* ------------------------------------------ make_plan(dc): the selection loop
\* The count of iterations after one more has begun; the count stops at
\* MaxIterations, which no planning call within the bounds reaches.
NextIteration == IF iterations < MaxIterations THEN iterations + 1 ELSE iterations

\* plan.size() < batch_size && !nodes_by_load.empty()
LoopCond == Len(dc_plan) < BatchSize(target) /\ nodes_by_load # << >>

\* The source taken from the back of nodes_by_load without std::pop_heap.
Popped_NoPop == nodes_by_load

\* nodes_by_load after std::pop_heap: the source host is at the back
Popped == PopHeap(nodes_by_load, NodeKey(nodes))

\* std::max(max_off_candidate_load, src_node_info.avg_load) == target_info.avg_load
BalanceAchieved(src) ==
    LoadEq(LoadMax(max_off_candidate_load, nodes[src].avg_load), nodes[target].avg_load)

\* src_node_info.avg_load <= target_info.avg_load
NoMoreCandidates(src) == ~LoadLess(nodes[target].avg_load, nodes[src].avg_load)

\* The load inversion check left out.
WouldInvert_Never(src, tgt) == FALSE

\* get_avg_load(src.tablet_count - 1) < get_avg_load(target.tablet_count + 1).
\* It is evaluated only after src.avg_load > target.avg_load >= 0, that is
\* with src.tablet_count >= 1, so the unsigned subtraction does not wrap.
WouldInvert(src, tgt) ==
    LoadLess(GetAvgLoad(nodes[src].tablet_count - 1, nodes[src].shard_count),
             GetAvgLoad(nodes[tgt].tablet_count + 1, nodes[tgt].shard_count))

\* One of the three checks leaves the loop with break.
Stops(src) == BalanceAchieved(src) \/ NoMoreCandidates(src) \/ WouldInvert(src, target)

\* src_node_info.shards_by_load after std::pop_heap: the source shard is at the back
ShardsPopped(src) == PopHeap(nodes[src].shards_by_load, ShardKey(nodes[src]))

\* The check for a replica on the target left out.
HasReplicaOnTarget_Never(g, tgt) == FALSE

\* has_replica_on_target
HasReplicaOnTarget(g, tgt) == \E i \in DOMAIN ReplicasOf(g) : ReplicasOf(g)[i].host = tgt

\* rack_load[rack]: the tablet's replicas on nodes of the DC in that rack
RackLoad(g, rack) ==
    LET rs == ReplicasOf(g)
    IN  Cardinality({ i \in DOMAIN rs :
                        topology[rs[i].host].dc = cur_dc /\ topology[rs[i].host].rack = rack })

\* std::max_element over rack_load; the source replica is in the DC, so the map is not empty
MaxRackLoad(g) ==
    LET loads == { RackLoad(g, topology[h].rack) :
                     h \in { x \in ReplicaHosts(g) : topology[x].dc = cur_dc } }
    IN  CHOOSE m \in loads : \A l \in loads : l <= m

\* A migration rejected already when it brings the target's rack level with
\* the most loaded rack.
RackRejects_AtMax(g, src, tgt) ==
    /\ topology[tgt].rack # topology[src].rack
    /\ RackLoad(g, topology[tgt].rack) + 1 >= MaxRackLoad(g)

\* The rack check left out.
RackRejects_Never(g, src, tgt) == FALSE

\* !same_rack && new_rack_load > max_rack_load
RackRejects(g, src, tgt) ==
    /\ topology[tgt].rack # topology[src].rack
    /\ RackLoad(g, topology[tgt].rack) + 1 > MaxRackLoad(g)

\* The selected tablet left among the candidates.
EraseCandidate_Keep(candidates, g) == candidates

\* src_shard_info.candidates.erase(source_tablet)
EraseCandidate(candidates, g) == candidates \ {g}

\* nodes with tablet g erased from the candidates of shard sh of src and the
\* shard pushed back onto shards_by_load (push_back_shard_candidate)
WithoutCandidate(src, popped_shards, g) ==
    [nodes EXCEPT ![src] =
        [@ EXCEPT !.shards[Last(popped_shards) + 1].candidates = EraseCandidate(@, g),
                  !.shards_by_load = PushHeap(popped_shards, ShardKey(nodes[src]))]]

\* The source shard's tablet_count left as it was.
ShardAfterMigration_NoDecrement(sl, g) ==
    [tablet_count |-> sl.tablet_count, candidates |-> EraseCandidate(sl.candidates, g)]

\* src_shard_info after the migration of its candidate g: the erase and
\* src_shard_info.tablet_count -= 1
ShardAfterMigration(sl, g) ==
    [tablet_count |-> sl.tablet_count - 1, candidates |-> EraseCandidate(sl.candidates, g)]

\* nodes after the bookkeeping of a migration of tablet g from the popped shard of src
AfterMigration(src, popped_shards, g) ==
    LET sh   == Last(popped_shards)
        tgt1 == [nodes[target] EXCEPT
                   !.tablet_count = @ + 1,
                   !.avg_load = GetAvgLoad(nodes[target].tablet_count + 1,
                                           nodes[target].shard_count)]
        src0 == nodes[src]
        src1 == [src0 EXCEPT
                   !.shards[sh + 1] = ShardAfterMigration(@, g),
                   !.tablet_count = @ - 1,
                   !.avg_load = GetAvgLoad(src0.tablet_count - 1, src0.shard_count)]
        src2 == [src1 EXCEPT
                   !.shards_by_load = IF src1.shards[sh + 1].tablet_count = 0
                                      THEN Front(popped_shards)
                                      ELSE PushHeap(popped_shards, ShardKey(src1))]
    IN  [nodes EXCEPT ![target] = tgt1, ![src] = src2]

\* The loop condition fails: control reaches the code after the loop.
LoopEnd ==
    /\ pc = "loop"
    /\ ~LoopCond
    /\ pc' = "after_loop"
    /\ UNCHANGED << listener, iterations, topology, tmaps, transitions, dcs_todo, plan, cur_dc,
                    nodes, target, nodes_by_load, max_off_candidate_load, target_load, dc_plan,
                    rounds >>

\* "Balance achieved."
BreakBalanced ==
    /\ pc = "loop"
    /\ LoopCond
    /\ \E popped \in {Popped} :
           /\ BalanceAchieved(Last(popped))
           /\ nodes_by_load' = popped
    /\ pc' = "after_loop"
    /\ iterations' = NextIteration
    /\ UNCHANGED << listener, topology, tmaps, transitions, dcs_todo, plan, cur_dc, nodes, target,
                    max_off_candidate_load, target_load, dc_plan, rounds >>

\* "No more candidate nodes."
BreakNoCandidates ==
    /\ pc = "loop"
    /\ LoopCond
    /\ \E popped \in {Popped} :
           /\ ~BalanceAchieved(Last(popped))
           /\ NoMoreCandidates(Last(popped))
           /\ nodes_by_load' = popped
    /\ pc' = "after_loop"
    /\ iterations' = NextIteration
    /\ UNCHANGED << listener, topology, tmaps, transitions, dcs_todo, plan, cur_dc, nodes, target,
                    max_off_candidate_load, target_load, dc_plan, rounds >>

\* "No more candidate nodes, load would be inverted."
BreakInversion ==
    /\ pc = "loop"
    /\ LoopCond
    /\ \E popped \in {Popped} :
           /\ ~BalanceAchieved(Last(popped))
           /\ ~NoMoreCandidates(Last(popped))
           /\ WouldInvert(Last(popped), target)
           /\ nodes_by_load' = popped
    /\ pc' = "after_loop"
    /\ iterations' = NextIteration
    /\ UNCHANGED << listener, topology, tmaps, transitions, dcs_todo, plan, cur_dc, nodes, target,
                    max_off_candidate_load, target_load, dc_plan, rounds >>

\* max_off_candidate_load left as it was when a node is removed.
OffCandidateLoad_Keep(src) == max_off_candidate_load

\* std::max(max_off_candidate_load, src_node_info.avg_load)
OffCandidateLoad(src) == LoadMax(max_off_candidate_load, nodes[src].avg_load)

\* "candidate node {} ran out of candidate shards"
DropNode ==
    /\ pc = "loop"
    /\ LoopCond
    /\ \E popped \in {Popped} : \E src \in {Last(popped)} :
           /\ ~Stops(src)
           /\ nodes[src].shards_by_load = << >>
           /\ max_off_candidate_load' = OffCandidateLoad(src)
           /\ nodes_by_load' = Front(popped)
    /\ iterations' = NextIteration
    /\ UNCHANGED << listener, topology, tmaps, transitions, pc, dcs_todo, plan, cur_dc, nodes, target,
                    target_load, dc_plan, rounds >>

\* "shard {} ran out of candidates"
DropShard ==
    /\ pc = "loop"
    /\ LoopCond
    /\ \E popped \in {Popped} : \E src \in {Last(popped)} :
         \E shards \in {ShardsPopped(src)} :
           /\ ~Stops(src)
           /\ nodes[src].shards_by_load # << >>
           /\ nodes[src].shards[Last(shards) + 1].candidates = {}
           /\ nodes' = [nodes EXCEPT ![src].shards_by_load = Front(shards)]
           /\ nodes_by_load' = PushHeap(popped, NodeKey(nodes))
    /\ iterations' = NextIteration
    /\ UNCHANGED << listener, topology, tmaps, transitions, pc, dcs_todo, plan, cur_dc, target,
                    max_off_candidate_load, target_load, dc_plan, rounds >>

\* "candidate tablet {} skipped because it has a replica on target node"
SkipCollision ==
    /\ pc = "loop"
    /\ LoopCond
    /\ \E popped \in {Popped} : \E src \in {Last(popped)} :
         \E shards \in {ShardsPopped(src)} :
           /\ ~Stops(src)
           /\ nodes[src].shards_by_load # << >>
           /\ \E g \in nodes[src].shards[Last(shards) + 1].candidates :
                /\ HasReplicaOnTarget(g, target)
                /\ nodes' = WithoutCandidate(src, shards, g)
           /\ nodes_by_load' = PushHeap(popped, NodeKey(nodes))
    /\ iterations' = NextIteration
    /\ UNCHANGED << listener, topology, tmaps, transitions, pc, dcs_todo, plan, cur_dc, target,
                    max_off_candidate_load, target_load, dc_plan, rounds >>

\* "candidate tablet {} skipped because it would increase load on rack"
SkipRack ==
    /\ pc = "loop"
    /\ LoopCond
    /\ \E popped \in {Popped} : \E src \in {Last(popped)} :
         \E shards \in {ShardsPopped(src)} :
           /\ ~Stops(src)
           /\ nodes[src].shards_by_load # << >>
           /\ \E g \in nodes[src].shards[Last(shards) + 1].candidates :
                /\ ~HasReplicaOnTarget(g, target)
                /\ RackRejects(g, src, target)
                /\ nodes' = WithoutCandidate(src, shards, g)
           /\ nodes_by_load' = PushHeap(popped, NodeKey(nodes))
    /\ iterations' = NextIteration
    /\ UNCHANGED << listener, topology, tmaps, transitions, pc, dcs_todo, plan, cur_dc, target,
                    max_off_candidate_load, target_load, dc_plan, rounds >>

\* "Select {} to move from {} to {}"
Emit ==
    /\ pc = "loop"
    /\ LoopCond
    /\ \E popped \in {Popped} : \E src \in {Last(popped)} :
         \E shards \in {ShardsPopped(src)} :
           /\ ~Stops(src)
           /\ nodes[src].shards_by_load # << >>
           /\ \E g \in nodes[src].shards[Last(shards) + 1].candidates :
                /\ ~HasReplicaOnTarget(g, target)
                /\ ~RackRejects(g, src, target)
                /\ dc_plan' = Append(dc_plan,
                                     [tablet |-> g,
                                      src    |-> Replica(src, Last(shards)),
                                      dst    |-> Replica(target, NextShard(target_load))])
                /\ nodes' = AfterMigration(src, shards, g)
           /\ nodes_by_load' = IF nodes'[src].tablet_count = 0
                               THEN Front(popped)
                               ELSE PushHeap(popped, NodeKey(nodes'))
    /\ target_load' = [target_load EXCEPT ![NextShard(target_load)] = @ + 1]
    /\ iterations' = NextIteration
    /\ UNCHANGED << listener, topology, tmaps, transitions, pc, dcs_todo, plan, cur_dc, target,
                    max_off_candidate_load, rounds >>

\* make_plan(dc) returns its plan; make_plan() appends it to the aggregated plan.
ReturnPlan ==
    /\ pc = "after_loop"
    /\ plan' = plan \o dc_plan
    /\ dcs_todo' = dcs_todo \ {cur_dc}
    /\ pc' = "make_plan"
    /\ nodes' = << >>
    /\ target' = 0
    /\ nodes_by_load' = << >>
    /\ max_off_candidate_load' = Load(0, 1)
    /\ target_load' = << >>
    /\ dc_plan' = << >>
    /\ iterations' = 0
    /\ UNCHANGED << listener, topology, tmaps, transitions, cur_dc, rounds >>

\* make_plan() returns the aggregated plan.
Finish ==
    /\ pc = "make_plan"
    /\ dcs_todo = {}
    /\ pc' = "returned"
    /\ UNCHANGED << listener, iterations, topology, tmaps, transitions, dcs_todo, plan, cur_dc,
                    nodes, target, nodes_by_load, max_off_candidate_load, target_load, dc_plan,
                    rounds >>

\* ------------------------------------------------------- iterated planning
RECURSIVE ReplaceFirst(_, _, _)
\* The replica list rs with its first replica equal to src replaced by dst.
ReplaceFirst(rs, src, dst) ==
    IF rs = << >> THEN << >>
    ELSE IF Head(rs) = src THEN << dst >> \o Tail(rs)
    ELSE << Head(rs) >> \o ReplaceFirst(Tail(rs), src, dst)

RECURSIVE ApplyPlan(_, _)
\* The tablet maps tm after the migrations of p, in order: each replaces src
\* by dst in its tablet's replica list.
ApplyPlan(tm, p) ==
    IF p = << >> THEN tm
    ELSE LET m == Head(p)
         IN  ApplyPlan([tm EXCEPT ![m.tablet[1]][m.tablet[2]] = ReplaceFirst(@, m.src, m.dst)],
                       Tail(p))

\* The executor applies the returned plan and the planner is invoked again.
Apply ==
    /\ pc = "returned"
    /\ plan # << >>
    /\ Len(rounds) < MaxRounds
    /\ tmaps' = ApplyPlan(tmaps, plan)
    /\ rounds' = Append(rounds, Len(plan))
    /\ pc' = "make_plan"
    /\ dcs_todo' = Datacenters
    /\ plan' = << >>
    /\ cur_dc' = ""
    /\ UNCHANGED << listener, iterations, topology, transitions, nodes, target, nodes_by_load,
                    max_off_candidate_load, target_load, dc_plan >>

\* ------------------------------------ tablet_allocator_impl: drop keyspace
\* make_drop_tablet_map_mutation(keyspace_name, id, ts)
MakeDropTabletMapMutation(id, ts) == [kind |-> "drop_tablet_map", table |-> id, ts |-> ts]

\* The mutations other listeners may have put into the list before the call.
OtherMutations == { [kind |-> "other", table |-> 0, ts |-> n] : n \in 1..2 }

\* Every keyspace counted as using tablets.
UsesTablets_Always(c) == TRUE

\* rs.uses_tablets()
UsesTablets(c) == c.uses_tablets

\* A drop-keyspace notification arrives: the keyspace _db.find_keyspace
\* returns (its strategy and the ids of cf_meta_data()), the timestamp and
\* the caller's list.
DropKeyspaceCalls ==
    [uses_tablets : BOOLEAN, tables : SUBSET (1..MaxDropTables), ts : 1..2,
     prior : UNION { [1..n -> OtherMutations] : n \in 0..MaxPriorMuts }]

\* on_before_drop_keyspace: one emplace_back per entry of cf_meta_data(), in
\* the iteration order of that unordered_map, if the strategy uses tablets.
OnBeforeDropKeyspace ==
    /\ hook_pc = "called"
    /\ IF UsesTablets(call)
       THEN \E order \in Orders(call.tables) :
               muts' = muts \o [i \in 1..Len(order) |->
                                  MakeDropTabletMapMutation(order[i], call.ts)]
       ELSE muts' = muts
    /\ hook_pc' = "done"
    /\ UNCHANGED << call, planner >>

\* ----------------------------------------------------------- specifications
Next ==
    \/ \E dc \in Datacenters : ThrowNoShards(dc)
    \/ \E dc \in Datacenters : ThrowBadShard(dc)
    \/ \E dc \in Datacenters : ReturnBalanced(dc)
    \/ \E dc \in Datacenters : ReturnTransitions(dc)
    \/ \E dc \in Datacenters : EnterLoop(dc)
    \/ LoopEnd
    \/ BreakBalanced
    \/ BreakNoCandidates
    \/ BreakInversion
    \/ DropNode
    \/ DropShard
    \/ SkipCollision
    \/ SkipRack
    \/ Emit
    \/ ReturnPlan
    \/ Finish

Spec == Init /\ [][Next]_vars

\* A snapshot make_plan() accepts: every normal node has shards and every
\* replica on a normal node names one of them.
ValidSnapshot == \A dc \in Datacenters : ~ZeroShards(dc) /\ ~BadShard(dc)

InitIter ==
    /\ \/ GeneratedSnapshot \/ ScenarioS6 \/ ScenarioHotShard
       \/ ScenarioIdleNode \/ ScenarioTwoSources
    /\ ValidSnapshot
    /\ ~PendingTransitions
    /\ InitPlanner
    /\ ListenerIdle

\* The steps of a planning call on a valid snapshot without pending
\* transitions (the throwing and the transitions returns are disabled there;
\* Apply changes neither the topology nor the transitions and its
\* destination shards are shards of the target).
NextIter ==
    \/ \E dc \in Datacenters : ReturnBalanced(dc)
    \/ \E dc \in Datacenters : EnterLoop(dc)
    \/ LoopEnd
    \/ BreakBalanced
    \/ BreakNoCandidates
    \/ BreakInversion
    \/ DropNode
    \/ DropShard
    \/ SkipCollision
    \/ SkipRack
    \/ Emit
    \/ ReturnPlan
    \/ Finish
    \/ Apply

\* Planning rounds with the plan applied between them.  The planner is one
\* cooperative task that runs to its return, and the executor applies every
\* plan and invokes the planner again: a step that can be taken is taken.
SpecIter == InitIter /\ [][NextIter]_vars /\ WF_vars(NextIter)

\* The schema listener alone: a drop-keyspace notification on an allocator
\* whose planner is not running.
InitDrop ==
    /\ topology = << >>
    /\ tmaps = [t \in Tables |-> << >>]
    /\ transitions = [t \in Tables |-> FALSE]
    /\ InitPlanner
    /\ call \in DropKeyspaceCalls
    /\ muts = call.prior
    /\ hook_pc = "called"

NextDrop == OnBeforeDropKeyspace

SpecDrop == InitDrop /\ [][NextDrop]_vars

\* ------------------------------------------------------------------ claims
\* The input snapshot as the claims read it, independently of the planner.
NormalIn(dc) == { h \in Hosts : topology[h].state = "normal" /\ topology[h].dc = dc }

\* Number of replicas the tablet maps tm place on host h.
ReplicasOn(tm, h) ==
    Cardinality({ x \in UNION { UNION { { << t, i, k >> : k \in DOMAIN tm[t][i] } :
                                        i \in DOMAIN tm[t] } : t \in Tables } :
                    tm[x[1]][x[2]][x[3]].host = h })

\* All normal nodes of dc have shards and the same replicas / shards ratio.
InputBalanced(dc) ==
    /\ \A h \in NormalIn(dc) : topology[h].shard_count > 0
    /\ \A h1, h2 \in NormalIn(dc) :
         ReplicasOn(tmaps, h1) * topology[h2].shard_count =
         ReplicasOn(tmaps, h2) * topology[h1].shard_count

\* Number of migrations among the first k of p that leave / reach host h.
Leaving(p, k, h) == Cardinality({ i \in 1..k : p[i].src.host = h })

Reaching(p, k, h) == Cardinality({ i \in 1..k : p[i].dst.host = h })

\* Replicas on h once the first k migrations of p are applied to the input.
CountAfter(p, k, h) == ReplicasOn(tmaps, h) - Leaving(p, k, h) + Reaching(p, k, h)

\* The hosts of a replica list are pairwise distinct.
DistinctHosts(rs) == \A i, j \in DOMAIN rs : i # j => rs[i].host # rs[j].host

\* Replicas of the list rs on nodes of dc in rack.
RackCount(rs, dc, rack) ==
    Cardinality({ i \in DOMAIN rs :
                    topology[rs[i].host].dc = dc /\ topology[rs[i].host].rack = rack })

Racks == { topology[h].rack : h \in Hosts }

\* No migration of p sends a tablet to a host that holds one of its replicas.
NonCollision(p) == \A i \in DOMAIN p : p[i].dst.host \notin ReplicaHosts(p[i].tablet)

\* C1. Replica non-collision: the destination host of every migration of a
\* plan holds no replica of the migrated tablet in the input snapshot.
C1_ReplicaNonCollision == NonCollision(dc_plan) /\ NonCollision(plan)

\* A returned plan with a migration from a shard on which another tablet had
\* to be passed over, because it has a replica on the destination host.
C1_Witness ==
    /\ pc = "returned"
    /\ \E i \in DOMAIN plan : \E g \in AllTablets :
         /\ g # plan[i].tablet
         /\ \E k \in DOMAIN ReplicasOf(g) : ReplicasOf(g)[k] = plan[i].src
         /\ plan[i].dst.host \in ReplicaHosts(g)

\* No tablet is migrated twice by p.
MovedOnce(p) == \A i, j \in DOMAIN p : i # j => p[i].tablet # p[j].tablet

\* C2. A tablet is moved at most once per plan: no tablet appears in two
\* migrations of a plan.
C2_MovedAtMostOnce == MovedOnce(dc_plan) /\ MovedOnce(plan)

\* C3. Applying all migrations of a returned plan to the input snapshot
\* leaves no tablet with two replicas on one host.
C3_NoDuplicateHostsAfterPlan ==
    pc = "returned" =>
        \A g \in AllTablets : DistinctHosts(ApplyPlan(tmaps, plan)[g[1]][g[2]])

\* The k-th migration of p does not invert the loads of its two nodes, the
\* earlier migrations of p counted.
NoInversionAt(p, k) ==
    ~LoadLess(Load(CountAfter(p, k, p[k].src.host), topology[p[k].src.host].shard_count),
              Load(CountAfter(p, k, p[k].dst.host), topology[p[k].dst.host].shard_count))

\* C4. Load-monotone: after every emitted migration the source node's
\* replicas / shards is at least the target node's, with the migrations
\* emitted earlier in the same plan counted.
C4_LoadMonotone == \A k \in DOMAIN dc_plan : NoInversionAt(dc_plan, k)

\* A second migration of a plan that leaves source and target exactly level.
C4_Witness ==
    /\ Len(dc_plan) >= 2
    /\ dc_plan[1].src.host # dc_plan[2].src.host
    /\ CountAfter(dc_plan, 2, dc_plan[2].src.host) * topology[dc_plan[2].dst.host].shard_count
         = CountAfter(dc_plan, 2, dc_plan[2].dst.host) * topology[dc_plan[2].src.host].shard_count

\* C5. Bounded size: the plan of one DC holds at most as many migrations as
\* its target node has shards, in make_plan(dc) and in the aggregated plan.
C5_BoundedSize ==
    /\ pc \in {"loop", "after_loop"} => Len(dc_plan) <= topology[target].shard_count
    /\ \A i \in DOMAIN plan :
         Reaching(plan, Len(plan), plan[i].dst.host) <= topology[plan[i].dst.host].shard_count

\* The loop ended with a full batch of several migrations while a node still
\* holds at least two tablets per shard more than the target.
C5_Witness ==
    /\ pc = "after_loop"
    /\ Len(dc_plan) >= 2
    /\ Len(dc_plan) = topology[target].shard_count
    /\ \E h \in NormalIn(cur_dc) :
         (CountAfter(dc_plan, Len(dc_plan), h) - 2 * topology[h].shard_count)
             * topology[target].shard_count
           >= CountAfter(dc_plan, Len(dc_plan), target) * topology[h].shard_count

\* The largest number of replicas of the list rs in one rack of dc.
MaxRackCount(rs, dc) ==
    CHOOSE m \in { RackCount(rs, dc, r) : r \in Racks } :
        \A r \in Racks : RackCount(rs, dc, r) <= m

\* Migration m, if it crosses racks, passes the rack check on the input
\* replicas and does not raise the largest per-rack replica count.
KeepsRackDiversity(m) ==
    LET dc == topology[m.dst.host].dc
        rs == ReplicasOf(m.tablet)
    IN  topology[m.src.host].rack # topology[m.dst.host].rack =>
          /\ RackCount(rs, dc, topology[m.dst.host].rack) + 1 <= MaxRackCount(rs, dc)
          /\ MaxRackCount(ReplaceFirst(rs, m.src, m.dst), dc) <= MaxRackCount(rs, dc)

\* C6. Rack diversity non-regression: a migration between racks satisfies
\* rack_load[target.rack] + 1 <= max(rack_load) on the tablet's input
\* replicas in the DC, so it does not raise the largest per-rack count.
C6_RackDiversity ==
    /\ \A i \in DOMAIN dc_plan : KeepsRackDiversity(dc_plan[i])
    /\ \A i \in DOMAIN plan : KeepsRackDiversity(plan[i])

\* A returned migration between racks of a tablet with several replicas in the DC.
C6_Witness ==
    /\ pc = "returned"
    /\ \E i \in DOMAIN plan :
         /\ topology[plan[i].src.host].rack # topology[plan[i].dst.host].rack
         /\ Len(ReplicasOf(plan[i].tablet)) >= 2
         /\ \A k \in DOMAIN ReplicasOf(plan[i].tablet) :
              topology[ReplicasOf(plan[i].tablet)[k].host].dc = topology[plan[i].dst.host].dc

\* C7. Transitions block planning: with pending transitions on any tablet
\* map, every plan of make_plan(dc), and the aggregated plan, is empty.
C7_TransitionsBlock ==
    (\E t \in Tables : transitions[t]) => dc_plan = << >> /\ plan = << >>

\* make_plan() returned for a snapshot whose last table alone has pending
\* transitions, the first table holds tablets, and a normal single-shard
\* node holds two replicas while another of its DC holds none.
C7_Witness ==
    /\ pc = "returned"
    /\ transitions[NumTables]
    /\ \A t \in Tables : t # NumTables => ~transitions[t]
    /\ tmaps[1] # << >>
    /\ \E dc \in Datacenters : \E h1, h2 \in NormalIn(dc) :
         /\ topology[h1].shard_count = 1
         /\ ReplicasOn(tmaps, h1) >= 2
         /\ ReplicasOn(tmaps, h2) = 0

\* C8. Balanced input gives an empty plan: a DC whose normal nodes all have
\* the same avg_load in the input (a DC without normal nodes and a snapshot
\* without tables included) gets no migration.
C8_BalancedEmptyPlan ==
    \A dc \in Datacenters :
        InputBalanced(dc) =>
          /\ cur_dc = dc => dc_plan = << >>
          /\ \A i \in DOMAIN plan : topology[plan[i].dst.host].dc # dc

\* make_plan() returned an empty plan for a snapshot in which nodes of
\* different shard counts hold replicas and every DC is balanced.
C8_Witness ==
    /\ pc = "returned"
    /\ plan = << >>
    /\ \A dc \in Datacenters : InputBalanced(dc)
    /\ \E dc \in Datacenters : \E h1, h2 \in NormalIn(dc) :
         /\ topology[h1].shard_count # topology[h2].shard_count
         /\ ReplicasOn(tmaps, h1) > 0

\* make_plan() returned an empty plan.
Converged == pc = "returned" /\ plan = << >>

\* The snapshot descends from scenario S6.
IsS6 == Len(topology) = 2 /\ Len(tmaps[1]) = 8

\* C9. Iterative convergence: planning and applying the plan, repeated,
\* reaches an empty plan; in scenario S6 after exactly two rounds of two
\* migrations each.
C9_Convergence == <>Converged /\ [](IsS6 /\ Converged => rounds = << 2, 2 >>)

\* Scenario S6 converged after two rounds of two migrations.
C9_Witness == IsS6 /\ Converged /\ rounds = << 2, 2 >>

\* Both ends of every migration of p are normal nodes of one DC.
WithinDC(p) ==
    \A i \in DOMAIN p :
        /\ topology[p[i].src.host].state = "normal"
        /\ topology[p[i].dst.host].state = "normal"
        /\ topology[p[i].src.host].dc = topology[p[i].dst.host].dc

\* C10. No cross-DC migrations: source and destination of every migration
\* of the aggregated plan are normal nodes of the same datacenter.
C10_NoCrossDC == WithinDC(dc_plan) /\ WithinDC(plan)

\* A returned plan, in a topology of several DCs, that migrates a tablet with
\* a replica in another DC than the migration's.
C10_Witness ==
    /\ pc = "returned"
    /\ \E i \in DOMAIN plan : \E h \in ReplicaHosts(plan[i].tablet) :
         topology[h].dc # topology[plan[i].dst.host].dc

\* No two migrations of p have the same tablet and the same source replica.
SourceOnce(p) ==
    \A i, j \in DOMAIN p : i # j => ~(p[i].tablet = p[j].tablet /\ p[i].src = p[j].src)

\* C11. (tablet, src) uniqueness: no two migrations of a plan have both the
\* same tablet and the same source replica (host, shard).
C11_TabletSrcUnique == SourceOnce(dc_plan) /\ SourceOnce(plan)

\* A returned plan with two migrations from one source replica (of different
\* tablets, then) and a tablet left behind on that shard.
C11_Witness ==
    /\ pc = "returned"
    /\ \E i, j \in DOMAIN plan : i # j /\ plan[i].src = plan[j].src

\* A normal node of dc has no shards, or a replica on a normal node of dc
\* names a shard the node does not have.
InvalidDC(dc) ==
    \/ \E h \in NormalIn(dc) : topology[h].shard_count = 0
    \/ \E t \in Tables : \E i \in DOMAIN tmaps[t] : \E k \in DOMAIN tmaps[t][i] :
          /\ tmaps[t][i][k].host \in NormalIn(dc)
          /\ tmaps[t][i][k].shard >= topology[tmaps[t][i][k].host].shard_count

\* C12. Invalid topology is fatal to the planning call: make_plan(dc) never
\* returns for a DC with a shardless normal node or a replica on a
\* non-existent shard, so make_plan() does not return; the call that ended
\* with the error hands out no plan.
C12_InvalidTopologyFatal ==
    /\ \A dc \in Datacenters : InvalidDC(dc) => dc \in dcs_todo /\ pc # "returned"
    /\ pc = "failed" => plan = << >> /\ InvalidDC(cur_dc)

\* The call failed at a DC whose normal nodes hold equally many replicas,
\* after another DC was planned, with a tablet map in transition.
C12_Witness ==
    /\ pc = "failed"
    /\ dcs_todo # Datacenters
    /\ \A h1, h2 \in NormalIn(cur_dc) : ReplicasOn(tmaps, h1) = ReplicasOn(tmaps, h2)
    /\ \E t \in Tables : transitions[t]

\* Host h has, in the input, the least replicas / shards among the normal
\* nodes of its DC.
MinLoaded(h) ==
    \A h2 \in NormalIn(topology[h].dc) :
        ReplicasOn(tmaps, h) * topology[h2].shard_count
            <= ReplicasOn(tmaps, h2) * topology[h].shard_count

\* The migrations of p into one DC share their destination host, a least
\* loaded normal node of that DC.
SingleTarget(p) ==
    /\ \A i, j \in DOMAIN p :
          topology[p[i].dst.host].dc = topology[p[j].dst.host].dc
              => p[i].dst.host = p[j].dst.host
    /\ \A i \in DOMAIN p : MinLoaded(p[i].dst.host)

\* C13. Single minimum-load target: all migrations emitted for one DC in one
\* planning call have the same dst.host, whose avg_load in the input is the
\* minimum over the DC's normal nodes.
C13_SingleMinTarget == SingleTarget(dc_plan) /\ SingleTarget(plan)

\* A returned migration that passes by another normal node of the DC which
\* the input loads less than the migration's source.
C13_Witness ==
    /\ pc = "returned"
    /\ \E i \in DOMAIN plan : \E h \in NormalIn(topology[plan[i].dst.host].dc) :
         /\ h # plan[i].dst.host
         /\ h # plan[i].src.host
         /\ ReplicasOn(tmaps, h) * topology[plan[i].src.host].shard_count
              < ReplicasOn(tmaps, plan[i].src.host) * topology[h].shard_count

\* Replica (host, shard) is one of tablet g's replicas in the input.
HasReplicaAt(g, host, shard) ==
    \E k \in DOMAIN ReplicasOf(g) : ReplicasOf(g)[k] = Replica(host, shard)

\* The source of every migration of p is a replica of its tablet in the input.
ValidSources(p) ==
    \A i \in DOMAIN p : HasReplicaAt(p[i].tablet, p[i].src.host, p[i].src.shard)

\* C14. Source validity: the source of every emitted migration is one of the
\* tablet's input replicas, and during the selection loop every candidate of
\* shard s of a node has an input replica at (node, s).
C14_SourceValidity ==
    /\ ValidSources(dc_plan) /\ ValidSources(plan)
    /\ pc \in {"loop", "after_loop"} =>
          \A h \in DOMAIN nodes : \A s \in DOMAIN nodes[h].shards :
              \A g \in nodes[h].shards[s].candidates : HasReplicaAt(g, h, s - 1)

\* A returned plan with migrations from two shards of one node.
C14_Witness ==
    /\ pc = "returned"
    /\ \E i, j \in DOMAIN plan :
         /\ plan[i].src.host = plan[j].src.host
         /\ plan[i].src.shard = 0
         /\ plan[j].src.shard > 0

\* The mutations the call appended: muts without the caller's prior ones.
Appended == SubSeq(muts, Len(call.prior) + 1, Len(muts))

\* The mutations already in the list are where and what they were.
PriorKept == Len(muts) >= Len(call.prior) /\ SubSeq(muts, 1, Len(call.prior)) = call.prior

\* Appended holds exactly one drop-tablet-map mutation, at the call's
\* timestamp, for every table of the set tables, and nothing else.
OneDropPerTable(tables) ==
    /\ Len(Appended) = Cardinality(tables)
    /\ \A t \in tables :
          \E i \in DOMAIN Appended : Appended[i] = MakeDropTabletMapMutation(t, call.ts)

\* C15 as stated. The on-drop-keyspace hook appends exactly one
\* drop-tablet-map mutation for every table of the dropped keyspace and
\* leaves the mutations already in the list unchanged.
C15_DropKeyspaceAsStated ==
    hook_pc = "done" => PriorKept /\ OneDropPerTable(call.tables)

\* C15, amended. The hook leaves the mutations already in the list unchanged;
\* it appends exactly one drop-tablet-map mutation for every table of the
\* keyspace if the keyspace's replication strategy uses tablets, and nothing
\* otherwise.
C15_DropKeyspace ==
    hook_pc = "done" =>
        PriorKept /\ OneDropPerTable(IF call.uses_tablets THEN call.tables ELSE {})

\* The hook returned for a keyspace with tablets and several tables, called
\* with a list that already held mutations.
C15_Witness ==
    /\ hook_pc = "done"
    /\ call.uses_tablets
    /\ Cardinality(call.tables) >= 2
    /\ call.prior # << >>
    /\ Len(muts) = Len(call.prior) + Cardinality(call.tables)

RECURSIVE SumShards(_, _)
\* The sum of shards[s].tablet_count over the first k shards of a node_load.
SumShards(n, k) == IF k = 0 THEN 0 ELSE n.shards[k].tablet_count + SumShards(n, k - 1)

\* C16 as stated. From the end of the per-shard load computation through the
\* selection loop every node_load present, the target included, has
\* tablet_count equal to the sum of its shards' tablet_count.
C16_NodeLoadSumAsStated ==
    pc \in {"loop", "after_loop"} =>
        \A h \in DOMAIN nodes : nodes[h].tablet_count = SumShards(nodes[h], Len(nodes[h].shards))

\* C16, amended. Every node_load other than the target has tablet_count
\* equal to the sum of its shards' tablet_count; the target's tablet_count
\* exceeds that sum by the number of migrations planned so far (its shards
\* are not updated, the load sketch counts them).
C16_NodeLoadSum ==
    pc \in {"loop", "after_loop"} =>
        \A h \in DOMAIN nodes :
            nodes[h].tablet_count =
                SumShards(nodes[h], Len(nodes[h].shards))
                    + (IF h = target THEN Len(dc_plan) ELSE 0)

\* The loop after a migration from a node of several shards to a target that
\* held replicas before.
C16_Witness ==
    /\ pc = "loop"
    /\ Len(dc_plan) >= 1
    /\ nodes[dc_plan[1].src.host].shard_count >= 2
    /\ nodes[target].tablet_count >= 2

\* The shard ids in the heap of node_load n.
HeapShards(n) == { n.shards_by_load[i] : i \in DOMAIN n.shards_by_load }

\* The shard ids of node_load n that hold tablets.
LoadedShards(n) == { s \in 0..(n.shard_count - 1) : n.shards[s + 1].tablet_count > 0 }

\* C17 as stated. At the top of every selection-loop iteration, for every
\* node, shards_by_load contains exactly the shard ids of that node whose
\* tablet_count is greater than 0, without duplicates.
C17_ShardsByLoadAsStated ==
    pc = "loop" =>
        \A h \in DOMAIN nodes :
            /\ HeapShards(nodes[h]) = LoadedShards(nodes[h])
            /\ Len(nodes[h].shards_by_load) = Cardinality(LoadedShards(nodes[h]))

\* C17, amended. At the top of every selection-loop iteration, for every
\* node, shards_by_load holds no duplicates and only shards whose
\* tablet_count is greater than 0, and every shard with tablet_count > 0
\* that it does not hold has no candidates left (it was dropped for running
\* out of candidates).
C17_ShardsByLoad ==
    pc = "loop" =>
        \A h \in DOMAIN nodes :
            /\ HeapShards(nodes[h]) \subseteq LoadedShards(nodes[h])
            /\ Len(nodes[h].shards_by_load) = Cardinality(HeapShards(nodes[h]))
            /\ \A s \in LoadedShards(nodes[h]) \ HeapShards(nodes[h]) :
                  nodes[h].shards[s + 1].candidates = {}

\* The top of an iteration after a shard that still holds tablets was
\* dropped for running out of candidates.
C17_Witness ==
    /\ pc = "loop"
    /\ \E h \in DOMAIN nodes : LoadedShards(nodes[h]) \ HeapShards(nodes[h]) # {}

\* The hosts still in the nodes_by_load heap, the target excepted.
Candidates == { nodes_by_load[i] : i \in DOMAIN nodes_by_load } \ {target}

\* C18. At any time during the selection loop, the avg_load of the target,
\* migrations already planned onto it included, is not greater than the
\* avg_load of any other node still in nodes_by_load.
C18_TargetNotAboveCandidates ==
    pc = "loop" =>
        \A h \in Candidates : ~LoadLess(nodes[h].avg_load, nodes[target].avg_load)

\* C19. Whenever the selection loop stops at the "balance achieved" check,
\* all normal nodes of the DC have the same avg_load, the migrations
\* planned so far counted.
C19_BalanceAchievedMeansEqual ==
    (pc = "loop" /\ LoopCond /\ BalanceAchieved(Last(Popped))) =>
        \A a, b \in DOMAIN nodes : LoadEq(nodes[a].avg_load, nodes[b].avg_load)

\* The hosts still in the nodes_by_load heap.
InHeap == { nodes_by_load[i] : i \in DOMAIN nodes_by_load }

\* The hosts removed from nodes_by_load for running out of candidate shards.
OffCandidates == DOMAIN nodes \ InHeap

\* C20. At every selection-loop iteration the avg_load of any node still in
\* nodes_by_load is not greater than the avg_load of any node removed for
\* running out of candidate shards, and once a node has been removed
\* max_off_candidate_load is not less than the avg_load of any node still
\* in nodes_by_load.
C20_OffCandidateMonotone ==
    pc = "loop" =>
        /\ \A h \in InHeap : \A o \in OffCandidates :
              ~LoadLess(nodes[o].avg_load, nodes[h].avg_load)
        /\ OffCandidates # {} =>
              \A h \in InHeap : ~LoadLess(max_off_candidate_load, nodes[h].avg_load)

\* The top of an iteration after a node was removed, with a loaded node
\* other than the target still in the heap.
C20_Witness ==
    /\ pc = "loop"
    /\ OffCandidates # {}
    /\ \E h \in Candidates : nodes[h].tablet_count > 0

\* The iteration at the top of the loop emits a migration from src: no
\* check stops the loop and the shard popped from src has a candidate that
\* passes the collision and the rack checks.
EmitsFrom(src) ==
    /\ pc = "loop"
    /\ LoopCond
    /\ src = Last(Popped)
    /\ ~Stops(src)
    /\ nodes[src].shards_by_load # << >>
    /\ \E g \in nodes[src].shards[Last(ShardsPopped(src)) + 1].candidates :
          ~HasReplicaOnTarget(g, target) /\ ~RackRejects(g, src, target)

\* C21. For every emitted migration, at the moment it is emitted the source
\* node has the greatest avg_load among the nodes still in nodes_by_load and
\* a strictly greater avg_load than the target, also after the target's
\* avg_load was changed while the target sits in the heap.
C21_MostLoadedSourceFirst ==
    \A src \in DOMAIN nodes :
        EmitsFrom(src) =>
            /\ \A h \in InHeap : ~LoadLess(nodes[src].avg_load, nodes[h].avg_load)
            /\ LoadLess(nodes[target].avg_load, nodes[src].avg_load)

\* A migration is emitted after an earlier one changed the avg_load of the
\* target, which is still in the heap with a second node loaded above it.
C21_Witness ==
    /\ dc_plan # << >>
    /\ target \in InHeap
    /\ \E src \in DOMAIN nodes :
          /\ EmitsFrom(src)
          /\ \E h \in Candidates \ {src} :
                LoadLess(nodes[target].avg_load, nodes[h].avg_load)

RECURSIVE SumOver(_, _)
\* The sum of f[x] over the set S.
SumOver(f, S) ==
    IF S = {} THEN 0
    ELSE LET x == CHOOSE y \in S : TRUE IN f[x] + SumOver(f, S \ {x})

\* The candidates left on the shards of node_load n.
CandidatesLeft(n) ==
    SumOver([s \in 1..n.shard_count |-> Cardinality(n.shards[s].candidates)], 1..n.shard_count)

\* What the selection loop can still remove: the hosts in nodes_by_load, the
\* shards in the nodes' shards_by_load and the tablets in the candidate sets.
Remaining(nl, heap) ==
    Len(heap)
    + SumOver([h \in DOMAIN nl |-> Len(nl[h].shards_by_load)], DOMAIN nl)
    + SumOver([h \in DOMAIN nl |-> CandidatesLeft(nl[h])], DOMAIN nl)

\* The nodes plus the shards plus the (tablet, replica) candidates of the DC
\* being planned.
IterationBound ==
    LET nl == PreparedNodes(cur_dc)
    IN  Cardinality(DOMAIN nl)
        + SumOver([h \in DOMAIN nl |-> nl[h].shard_count], DOMAIN nl)
        + SumOver([h \in DOMAIN nl |-> nl[h].tablet_count], DOMAIN nl)

\* C22. The selection loop terminates for every input: every iteration that
\* does not leave the loop removes for good a node from nodes_by_load, a
\* shard from shards_by_load or a tablet from a candidate set (a migrated or
\* skipped candidate is never put back), and the number of iterations is at
\* most the number of nodes plus shards plus candidates of the DC.
C22_LoopTerminates ==
    /\ [][(pc = "loop" /\ pc' = "loop") =>
             Remaining(nodes', nodes_by_load') < Remaining(nodes, nodes_by_load)]_vars
    /\ [](pc \in {"loop", "after_loop"} =>
             iterations < MaxIterations /\ iterations <= IterationBound)

\* The loop was left after iterations that skipped a candidate and emitted a
\* migration.
C22_Witness ==
    /\ pc = "after_loop"
    /\ dc_plan # << >>
    /\ iterations > Len(dc_plan) + 1

\* Every tablet of the snapshot has a single replica.
RF1 == \A g \in AllTablets : Len(ReplicasOf(g)) = 1

\* With the tablet counts cnt of the nodes S, moving one tablet from a node
\* of greatest avg_load to the node t would invert their loads:
\* (max.tablet_count - 1) / max.shard_count < (t.tablet_count + 1) / t.shard_count.
MoveWouldInvert(S, cnt, t) ==
    \E m \in S :
        /\ \A h \in S : ~LoadLess(GetAvgLoad(cnt[m], topology[m].shard_count),
                                   GetAvgLoad(cnt[h], topology[h].shard_count))
        /\ LoadLess(GetAvgLoad(cnt[m] - 1, topology[m].shard_count),
                    GetAvgLoad(cnt[t] + 1, topology[t].shard_count))

\* The nodes S have the same number of shards.
EqualShards(S) == \A a, b \in S : topology[a].shard_count = topology[b].shard_count

\* The tablet counts cnt of the nodes S differ by at most 1.
WithinOne(S, cnt) == \A a, b \in S : cnt[a] - cnt[b] <= 1

\* C23. With RF=1 and no pending transitions, make_plan(dc) on a DC with
\* normal nodes returns an empty plan only if moving one tablet from a
\* most-loaded node to the chosen least-loaded target would invert their
\* loads; with equal shard counts the tablet counts of the nodes then
\* differ by at most 1.  The empty plan is returned after the loop, or by
\* the "load is balanced" return with min_load_node as the target.
C23_EmptyPlanMeansInversion ==
    /\ (pc = "after_loop" /\ dc_plan = << >> /\ RF1) =>
          LET cnt == [h \in DOMAIN nodes |-> nodes[h].tablet_count]
          IN  /\ MoveWouldInvert(DOMAIN nodes, cnt, target)
              /\ EqualShards(DOMAIN nodes) => WithinOne(DOMAIN nodes, cnt)
    /\ (pc = "make_plan" /\ RF1) =>
          \A dc \in dcs_todo :
              (NodeSet(dc) # {} /\ ~ZeroShards(dc) /\ ~BadShard(dc) /\ Balanced(dc)) =>
                  LET cnt == [h \in NodeSet(dc) |-> CountOn(h)]
                  IN  /\ \A order \in Orders(NodeSet(dc)) :
                            MoveWouldInvert(NodeSet(dc), cnt, ImbalanceOf(order).min_load_node)
                      /\ EqualShards(NodeSet(dc)) => WithinOne(NodeSet(dc), cnt)

\* The loop was left with an empty plan on an unbalanced snapshot of
\* single-replica tablets whose target is in another rack than its
\* most-loaded node.
C23_Witness ==
    /\ pc = "after_loop"
    /\ dc_plan = << >>
    /\ RF1
    /\ \E h \in DOMAIN nodes :
          /\ nodes[h].tablet_count > 0
          /\ LoadLess(nodes[target].avg_load, nodes[h].avg_load)
          /\ topology[h].rack # topology[target].rack

\* The iteration at the top of the loop reaches the load inversion check,
\* which evaluates src.tablet_count - 1, with source src.
ReachesInversionCheck(src) ==
    /\ pc = "loop"
    /\ LoopCond
    /\ src = Last(Popped)
    /\ ~BalanceAchieved(src)
    /\ ~NoMoreCandidates(src)

\* C24. No source is drained and no counter underflows: after every emitted
\* migration the tablet_count of its source node is still at least 1 (so
\* the branch that drops a source with tablet_count == 0 is never taken),
\* and whenever the loop evaluates src.tablet_count - 1 or decrements the
\* tablet_count of a shard or of a node, that count is at least 1.
C24_NoDrainNoUnderflow ==
    /\ pc \in {"loop", "after_loop"} =>
          \A i \in DOMAIN dc_plan : nodes[dc_plan[i].src.host].tablet_count >= 1
    /\ \A src \in DOMAIN nodes :
          /\ ReachesInversionCheck(src) => nodes[src].tablet_count >= 1
          /\ EmitsFrom(src) =>
                /\ nodes[src].tablet_count >= 2
                /\ nodes[src].shards[Last(ShardsPopped(src)) + 1].tablet_count >= 1

\* A migration was emitted from a node that is left with a single tablet.
C24_Witness ==
    /\ pc \in {"loop", "after_loop"}
    /\ \E i \in DOMAIN dc_plan : nodes[dc_plan[i].src.host].tablet_count = 1

====
